---------------------------- MODULE Spec2Model ----------------------------
(***************************************************************************)
(* Envelope-encryption text share (src/src/index.ts).                      *)
(*                                                                         *)
(* Strings are sequences of UTF-16 code units, byte arrays are sequences   *)
(* of 0..255.  crypto.subtle AES-GCM is represented by a keystream mask    *)
(* plus a 16 byte tag over key, iv and ciphertext; decryption verifies the *)
(* tag.  The random source hands out values that were not handed out       *)
(* before (the CSPRNG assumption the design rests on).                     *)
(***************************************************************************)
EXTENDS Integers, Sequences, FiniteSets, Bags, TLC

\* ---------------------------------------------------------------- bounds
\* Stand-in for the 1024 * 1024 limit of src/src/index.ts:106.
MaxTextLen == 2
\* Share calls (past validation) in one behaviour.
MaxShares == 2
\* Share calls in the behaviours that tamper with tokens and records.
MaxTamperShares == 1
\* How many leading characters of a token or of a stored content the tamper
\* steps reach.
FlipSpan == 6
\* The bits the tamper steps invert: bit 0 turns a hex digit into its
\* neighbour, bit 5 is the bit that tells "a" from "A".
FlipBits == {0, 5}
\* Share requests and retrieve requests handled one await at a time.
MaxShareCalls == 2
MaxRetrieveCalls == 2

\* ------------------------------------------------------ program constants
IvLen == 12
TagLen == 16
KeyLen == 32

\* ------------------------------------------------------------ characters
HexDigits == <<48, 49, 50, 51, 52, 53, 54, 55, 56, 57, 97, 98, 99, 100, 101, 102>>

IsLineTerminator(c) == c \in {10, 13, 8232, 8233}

\* StrWhiteSpaceChar of parseInt's leading-blank trimming (line terminators
\* never reach it: the chunking regex does not match them).
IsWhiteSpace(c) == c \in {9, 11, 12, 32, 160, 5760, 8239, 8287, 12288, 65279}
                   \/ (c >= 8192 /\ c <= 8202)

IsHexDigit(c) == (c >= 48 /\ c <= 57) \/ (c >= 97 /\ c <= 102) \/ (c >= 65 /\ c <= 70)

HexValue(c) == IF c <= 57 THEN c - 48 ELSE IF c >= 97 THEN c - 87 ELSE c - 55

\* ----------------------------------------------------------------- buf2hex
buf2hex(buffer) ==
    [i \in 1..(2 * Len(buffer)) |->
        IF i % 2 = 1 THEN HexDigits[(buffer[(i + 1) \div 2] \div 16) + 1]
                     ELSE HexDigits[(buffer[i \div 2] % 16) + 1]]

\* ------------------------------------------------- hexStr.match(/.{1,2}/g)
\* The chunks of one or two characters, left to right; "." matches no line
\* terminator.  <<>> stands for the null that match returns without a match.
\* The chunks of s[lo..hi], a stretch without line terminators.
PairUp(s, lo, hi) ==
    [i \in 1..((hi - lo + 2) \div 2) |->
        IF lo + 2 * i - 1 <= hi THEN <<s[lo + 2 * i - 2], s[lo + 2 * i - 1]>>
                                ELSE <<s[lo + 2 * i - 2]>>]

RECURSIVE MatchFrom(_, _)
MatchFrom(s, p) ==
    IF p > Len(s) THEN <<>>
    ELSE IF \A q \in p..Len(s) : ~IsLineTerminator(s[q]) THEN PairUp(s, p, Len(s))
    ELSE LET t == CHOOSE q \in p..Len(s) :
                      /\ IsLineTerminator(s[q])
                      /\ \A r \in p..(q - 1) : ~IsLineTerminator(s[r])
         IN  PairUp(s, p, t - 1) \o MatchFrom(s, t + 1)

MatchChunks(s) == MatchFrom(s, 1)

\* ------------------------------------------------------ parseInt(byte, 16)
\* [nan |-> TRUE] is NaN.  Leading blanks are skipped, one sign is taken, a
\* 0x / 0X prefix is dropped, then the longest run of hex digits is read.
NaN == [nan |-> TRUE, val |-> 0]
Num(v) == [nan |-> FALSE, val |-> v]

parseInt16(byte) ==
    IF Len(byte) = 1
    THEN IF IsHexDigit(byte[1]) THEN Num(HexValue(byte[1])) ELSE NaN
    ELSE LET a == byte[1]
             b == byte[2]
         IN  IF IsWhiteSpace(a)
             THEN IF IsHexDigit(b) THEN Num(HexValue(b)) ELSE NaN
             ELSE IF a = 43
             THEN IF IsHexDigit(b) THEN Num(HexValue(b)) ELSE NaN
             ELSE IF a = 45
             THEN IF IsHexDigit(b) THEN Num(0 - HexValue(b)) ELSE NaN
             ELSE IF a = 48 /\ b \in {120, 88} THEN NaN
             ELSE IF IsHexDigit(a)
             THEN IF IsHexDigit(b) THEN Num(16 * HexValue(a) + HexValue(b))
                                   ELSE Num(HexValue(a))
             ELSE NaN

\* The element conversion of new Uint8Array(array): NaN -> 0, else modulo 256.
ToUint8(n) ==
    IF n.nan THEN 0
    ELSE IF n.val >= 0 THEN n.val % 256
    ELSE (256 - ((0 - n.val) % 256)) % 256

\* new Uint8Array(chunks.map(byte => parseInt(byte, 16)))
HexToBytes(chunks) == [i \in 1..Len(chunks) |-> ToUint8(parseInt16(chunks[i]))]

\* -------------------------------------------------------- TextEncoder.encode
IsHighSurrogate(u) == u >= 55296 /\ u <= 56319
IsLowSurrogate(u) == u >= 56320 /\ u <= 57343

Utf8Bytes(cp) ==
    IF cp < 128 THEN <<cp>>
    ELSE IF cp < 2048 THEN <<192 + (cp \div 64), 128 + (cp % 64)>>
    ELSE IF cp < 65536
    THEN <<224 + (cp \div 4096), 128 + ((cp \div 64) % 64), 128 + (cp % 64)>>
    ELSE <<240 + (cp \div 262144), 128 + ((cp \div 4096) % 64),
           128 + ((cp \div 64) % 64), 128 + (cp % 64)>>

\* The bytes the code unit at p contributes: a high surrogate followed by a
\* low one gives the four bytes of the pair and the low one gives none; a
\* surrogate on its own is encoded as U+FFFD.
UnitBytes(str, p) ==
    IF IsHighSurrogate(str[p])
    THEN IF p + 1 <= Len(str) /\ IsLowSurrogate(str[p + 1])
         THEN Utf8Bytes(65536 + (str[p] - 55296) * 1024 + (str[p + 1] - 56320))
         ELSE Utf8Bytes(65533)
    ELSE IF IsLowSurrogate(str[p])
    THEN IF p > 1 /\ IsHighSurrogate(str[p - 1]) THEN <<>> ELSE Utf8Bytes(65533)
    ELSE Utf8Bytes(str[p])

RECURSIVE EncodeRange(_, _, _)
EncodeRange(str, lo, hi) ==
    IF lo > hi THEN <<>>
    ELSE IF lo = hi THEN UnitBytes(str, lo)
    ELSE LET mid == (lo + hi) \div 2
         IN  EncodeRange(str, lo, mid) \o EncodeRange(str, mid + 1, hi)

\* enc.encode(str)
enc_encode(str) == EncodeRange(str, 1, Len(str))

\* -------------------------------------------------------- TextDecoder.decode
CodeUnits(cp) ==
    IF cp < 65536 THEN <<cp>>
    ELSE <<55296 + ((cp - 65536) \div 1024), 56320 + ((cp - 65536) % 1024)>>

\* The UTF-8 decoder of new TextDecoder(): not fatal, so a malformed sequence
\* becomes U+FFFD and the offending byte is read again.
RECURSIVE DecodeFrom(_, _, _, _, _, _)
DecodeFrom(bytes, p, needed, cp, lower, upper) ==
    IF p > Len(bytes) THEN (IF needed > 0 THEN <<65533>> ELSE <<>>)
    ELSE IF needed = 0 /\ \A q \in p..Len(bytes) : bytes[q] < 128
    THEN SubSeq(bytes, p, Len(bytes))
    ELSE LET b == bytes[p] IN
         IF needed = 0
         THEN IF b < 128 THEN <<b>> \o DecodeFrom(bytes, p + 1, 0, 0, 128, 191)
              ELSE IF b >= 194 /\ b <= 223
              THEN DecodeFrom(bytes, p + 1, 1, b - 192, 128, 191)
              ELSE IF b >= 224 /\ b <= 239
              THEN DecodeFrom(bytes, p + 1, 2, b - 224,
                              IF b = 224 THEN 160 ELSE 128,
                              IF b = 237 THEN 159 ELSE 191)
              ELSE IF b >= 240 /\ b <= 244
              THEN DecodeFrom(bytes, p + 1, 3, b - 240,
                              IF b = 240 THEN 144 ELSE 128,
                              IF b = 244 THEN 143 ELSE 191)
              ELSE <<65533>> \o DecodeFrom(bytes, p + 1, 0, 0, 128, 191)
         ELSE IF b < lower \/ b > upper
              THEN <<65533>> \o DecodeFrom(bytes, p, 0, 0, 128, 191)
              ELSE IF needed = 1
                   THEN CodeUnits(cp * 64 + (b - 128))
                        \o DecodeFrom(bytes, p + 1, 0, 0, 128, 191)
                   ELSE DecodeFrom(bytes, p + 1, needed - 1, cp * 64 + (b - 128), 128, 191)

\* dec.decode(buffer): ignoreBOM is left at false, so one leading byte order
\* mark EF BB BF is dropped from the output.
dec_decode(bytes) ==
    IF Len(bytes) >= 3 /\ bytes[1] = 239 /\ bytes[2] = 187 /\ bytes[3] = 191
    THEN DecodeFrom(bytes, 4, 0, 0, 128, 191)
    ELSE DecodeFrom(bytes, 1, 0, 0, 128, 191)

\* ------------------------------------------------------------ random source
\* The byte at position k of the stream behind crypto.getRandomValues and
\* crypto.randomUUID.  k |-> 163 * k + 5 is one-to-one modulo 256, so two
\* draws that start at different positions differ in every byte.
RandomByte(k) == (163 * k + 5) % 256

\* crypto.getRandomValues(new Uint8Array(n)) with the stream at position r.
getRandomValues(n, r) == [i \in 1..n |-> RandomByte(r + i - 1)]

\* crypto.randomUUID() with the stream at position r: 16 random bytes, the
\* version nibble set to 4 and the variant bits to 10, printed 8-4-4-4-12.
UuidBytes(r) ==
    [i \in 1..16 |->
        IF i = 7 THEN 64 + (RandomByte(r + i - 1) % 16)
        ELSE IF i = 9 THEN 128 + (RandomByte(r + i - 1) % 64)
        ELSE RandomByte(r + i - 1)]

randomUUID(r) ==
    LET h == buf2hex(UuidBytes(r))
    IN  SubSeq(h, 1, 8) \o <<45>> \o SubSeq(h, 9, 12) \o <<45>> \o SubSeq(h, 13, 16)
        \o <<45>> \o SubSeq(h, 17, 20) \o <<45>> \o SubSeq(h, 21, 32)

\* ------------------------------------------------------- AES-GCM stand-in
\* The sum of the bytes, and the sum of position times byte (the bag holds
\* every summand plus one, since a bag counts from one).
ByteSum(bytes) ==
    BagCardinality([i \in 1..Len(bytes) |-> bytes[i] + 1]) - Len(bytes)
WeightedSum(bytes) ==
    BagCardinality([i \in 1..Len(bytes) |-> i * bytes[i] + 1]) - Len(bytes)

KeyStream(key, iv, i) ==
    (key[((i - 1) % Len(key)) + 1] + iv[((i - 1) % Len(iv)) + 1] + i) % 256

\* The authentication tag over key, iv and ciphertext.  Tag byte TagLen
\* weighs byte i by 1 + TagLen * i, an odd number, so changing one bit of the
\* iv or of the ciphertext always changes the tag.  Tag byte j also takes in
\* two bytes of the key, so that the tag made under one drawn key does not
\* verify under another.
GcmTag(key, iv, ct) ==
    LET all == key \o iv \o ct
        s1 == ByteSum(all)
        s2 == WeightedSum(all)
        k(j) == key[((j - 1) % Len(key)) + 1] + 2 * key[((j + TagLen - 1) % Len(key)) + 1]
    IN  [j \in 1..TagLen |-> (s1 + j * s2 + 31 * j + Len(ct) + k(j)) % 256]

\* crypto.subtle.importKey('raw', keyBytes, {name: 'AES-GCM'}, ...): only
\* 128, 192 and 256 bit keys are accepted.
ImportKeyOk(keyBytes) == Len(keyBytes) \in {16, 24, 32}

\* crypto.subtle.encrypt({name: 'AES-GCM', iv}, key, data): ciphertext || tag.
SubtleEncrypt(key, iv, data) ==
    LET ct == [i \in 1..Len(data) |-> (data[i] + KeyStream(key, iv, i)) % 256]
    IN  ct \o GcmTag(key, iv, ct)

\* crypto.subtle.decrypt({name: 'AES-GCM', iv}, key, data): rejects when the
\* data cannot hold a tag, when there is no iv, or when the tag does not verify.
SubtleDecrypt(key, iv, data) ==
    IF Len(data) < TagLen \/ Len(iv) = 0
    THEN [ok |-> FALSE, data |-> <<>>]
    ELSE LET ct == SubSeq(data, 1, Len(data) - TagLen)
             tag == SubSeq(data, Len(data) - TagLen + 1, Len(data))
         IN  IF tag = GcmTag(key, iv, ct)
             THEN [ok |-> TRUE,
                   data |-> [i \in 1..Len(ct) |->
                               (ct[i] + 256 - KeyStream(key, iv, i)) % 256]]
             ELSE [ok |-> FALSE, data |-> <<>>]

\* --------------------------------------------------------------- encryptData
\* iv is the value crypto.getRandomValues(new Uint8Array(12)) returned.
encryptData(plaintext, keyBytes, iv) ==
    buf2hex(iv \o SubtleEncrypt(keyBytes, iv, enc_encode(plaintext)))

\* --------------------------------------------------------------- decryptData
Returned(text) == [threw |-> FALSE, error |-> "", text |-> text]
Threw(error) == [threw |-> TRUE, error |-> error, text |-> <<>>]

decryptData(hexStr, keyBytes) ==
    LET chunks == MatchChunks(hexStr)
    IN  IF chunks = <<>> THEN Threw("TypeError")
        ELSE LET combined == HexToBytes(chunks)
                 iv == SubSeq(combined, 1, IF Len(combined) < IvLen THEN Len(combined) ELSE IvLen)
                 data == SubSeq(combined, IvLen + 1, Len(combined))
             IN  IF ~ImportKeyOk(keyBytes) THEN Threw("DataError")
                 ELSE LET decrypted == SubtleDecrypt(keyBytes, iv, data)
                      IN  IF decrypted.ok THEN Returned(dec_decode(decrypted.data))
                          ELSE Threw("Decryption failed")

\* -------------------------------------------------------------- getMasterKey
\* crypto.subtle.digest('SHA-256', data): a 32 byte digest.
Sha256(data) ==
    LET s1 == ByteSum(data)
        s2 == WeightedSum(data)
    IN  [i \in 1..32 |-> (s1 * i + s2 + 7 * i * i + Len(data)) % 256]

getMasterKey(secret) == Sha256(enc_encode(secret))

\* c.env.SECRET_KEY, the operator's secret: "s3cret".
SECRET_KEY == <<115, 51, 99, 114, 101, 116>>

\* await getMasterKey(c.env.SECRET_KEY), the same in every request.
MasterKey == getMasterKey(SECRET_KEY)

\* ------------------------------------------------------------------ envelope
\* JSON.stringify({ id, key }) for two strings without characters to escape.
JsonStringify(id, key) ==
    <<123, 34, 105, 100, 34, 58, 34>> \o id
    \o <<34, 44, 34, 107, 101, 121, 34, 58, 34>> \o key \o <<34, 125>>

\* The first position from p on that holds a double quote, 0 when none does.
IndexOfQuote(str, p) ==
    IF \E q \in p..Len(str) : str[q] = 34
    THEN CHOOSE q \in p..Len(str) : str[q] = 34 /\ \A r \in p..(q - 1) : str[r] # 34
    ELSE 0

\* const { id, key: keyHex } = JSON.parse(payloadStr), for the texts of the
\* shape JsonStringify writes and for objects that lack the id, the key or
\* both (the member is then undefined); any other text is taken as a
\* SyntaxError.
JsonParse(payloadStr) ==
    LET bad == [threw |-> TRUE, hasId |-> FALSE, id |-> <<>>, hasKey |-> FALSE, key |-> <<>>]
        n == Len(payloadStr)
        idOpen == <<123, 34, 105, 100, 34, 58, 34>>
        keyOpen == <<123, 34, 107, 101, 121, 34, 58, 34>>
        q1 == IndexOfQuote(payloadStr, 8)
        q2 == IndexOfQuote(payloadStr, q1 + 9)
        k1 == IndexOfQuote(payloadStr, 9)
    IN  IF \E i \in 1..n : payloadStr[i] = 92 \/ payloadStr[i] < 32
        THEN bad
        ELSE IF payloadStr = <<123, 125>>
        THEN [bad EXCEPT !.threw = FALSE]
        ELSE IF n >= 10 /\ SubSeq(payloadStr, 1, 8) = keyOpen
        THEN IF k1 # 0 /\ k1 + 1 = n /\ payloadStr[n] = 125
             THEN [threw |-> FALSE, hasId |-> FALSE, id |-> <<>>, hasKey |-> TRUE,
                   key |-> SubSeq(payloadStr, 9, k1 - 1)]
             ELSE bad
        ELSE IF n < 9 \/ SubSeq(payloadStr, 1, 7) # idOpen \/ q1 = 0
        THEN bad
        ELSE IF q1 + 1 = n /\ payloadStr[n] = 125
        THEN [threw |-> FALSE, hasId |-> TRUE, id |-> SubSeq(payloadStr, 8, q1 - 1),
              hasKey |-> FALSE, key |-> <<>>]
        ELSE IF n < 18 \/ SubSeq(payloadStr, q1, q1 + 8) # <<34, 44, 34, 107, 101, 121, 34, 58, 34>>
        THEN bad
        ELSE IF q2 = 0 \/ q2 + 1 # n \/ payloadStr[n] # 125
        THEN bad
        ELSE [threw |-> FALSE, hasId |-> TRUE, id |-> SubSeq(payloadStr, 8, q1 - 1),
              hasKey |-> TRUE, key |-> SubSeq(payloadStr, q1 + 9, q2 - 1)]

\* ------------------------------------------------------------------- state
VARIABLES
    store,    \* the shares table: id |-> [content, created_at]
    rng,      \* position of the random stream
    clock,    \* Date.now()
    issued,   \* history: what each successful share call was given and returned
    calls,    \* share calls that passed validation
    resp,     \* the last request and its response
    run,      \* the requests in progress, handled one await at a time
    idUnique, \* schema.sql: whether the id column of shares is unique
    dups      \* rows inserted under an id that was already in the table

vars == <<store, rng, clock, issued, calls, resp, run, idUnique, dups>>

\* ------------------------------------------------------------ shares table
\* The table is kept as the function from an id to the first row under that
\* id, which is the row SELECT ... .first() reads; later rows under the same
\* id (possible only when the id column is not unique) are kept in dups.
\* SELECT content FROM shares WHERE id = ?  ... .first(): a row or null
DbHas(table, id) == id \in DOMAIN table
DbFirst(table, id) == table[id].content

\* InsertThrows with the uniqueness of the id column not enforced.
InsertThrows_NoConstraint(table, id, unique) == FALSE

\* INSERT INTO shares (id, content, created_at) VALUES (?, ?, ?) is a plain
\* INSERT: it never replaces a row.  With a unique id column it throws when
\* the id is in the table.
InsertThrows(table, id, unique) == unique /\ DbHas(table, id)

\* DbInsert as INSERT OR REPLACE would have it.
DbInsert_OrReplace(table, id, content, created_at) ==
    [i \in (DOMAIN table) \cup {id} |->
        IF i = id THEN [content |-> content, created_at |-> created_at] ELSE table[i]]

\* The first rows after an INSERT that did not throw.
DbInsert(table, id, content, created_at) ==
    IF DbHas(table, id) THEN table
    ELSE [i \in (DOMAIN table) \cup {id} |->
            IF i = id THEN [content |-> content, created_at |-> created_at]
            ELSE table[i]]

\* The later rows after an INSERT that did not throw.
DbInsertDup(table, later, id, content, created_at) ==
    IF DbHas(table, id)
    THEN Append(later, [id |-> id, content |-> content, created_at |-> created_at])
    ELSE later

\* ---------------------------------------------------------------- responses
TextRequired == [status |-> 400, msg |-> "Error: Text required"]
TextTooLarge == [status |-> 400, msg |-> "Error: Text too large (>1MB)"]
DatabaseError == [status |-> 500, msg |-> "Error: Database error"]
TokenRequired == [status |-> 400, msg |-> "Error: Token required"]
InvalidToken == [status |-> 400, msg |-> "Error: Invalid token"]
NotFound == [status |-> 404, msg |-> "Error: Not found"]
DecryptionFailed == [status |-> 500, msg |-> "Error: Decryption failed or system error"]
\* c.text(body): status 200
Text200 == [status |-> 200, msg |-> ""]

\* ----------------------------------------------------- app.post('/api/share')
\* The checks on the request body; Text200 when it passes both.
ValidateText(text) ==
    IF text = <<>> THEN TextRequired
    ELSE IF Len(text) > MaxTextLen THEN TextTooLarge
    ELSE Text200

\* ShareStore with the key written into the row next to the content.
ShareStore_KeyInRow(dbOk, id, dataKey, encryptedContent, r) ==
    IF ~dbOk
    THEN [reply |-> DatabaseError, body |-> <<>>, put |-> TRUE, id |-> id,
          key |-> dataKey, content |-> encryptedContent \o buf2hex(dataKey), rng |-> r]
    ELSE [reply |-> Text200,
          body |-> encryptData(JsonStringify(id, buf2hex(dataKey)), MasterKey,
                               getRandomValues(IvLen, r)),
          put |-> TRUE, id |-> id, key |-> dataKey,
          content |-> encryptedContent \o buf2hex(dataKey), rng |-> r + IvLen]

\* ShareStore without the return in the catch block: a failed INSERT is
\* logged and the token is built all the same.
ShareStore_NoReturnInCatch(dbOk, id, dataKey, encryptedContent, r) ==
    [reply |-> Text200,
     body |-> encryptData(JsonStringify(id, buf2hex(dataKey)), MasterKey,
                          getRandomValues(IvLen, r)),
     put |-> TRUE, id |-> id, key |-> dataKey, content |-> encryptedContent,
     rng |-> r + IvLen]

\* Steps 3 and 4 of the handler, after id, dataKey and encryptedContent are
\* made: the INSERT (dbOk tells whether it runs without throwing), then the
\* token.  r is the position of the random stream.
ShareStore(dbOk, id, dataKey, encryptedContent, r) ==
    IF ~dbOk
    THEN [reply |-> DatabaseError, body |-> <<>>, put |-> TRUE, id |-> id,
          key |-> dataKey, content |-> encryptedContent, rng |-> r]
    ELSE [reply |-> Text200,
          body |-> encryptData(JsonStringify(id, buf2hex(dataKey)), MasterKey,
                               getRandomValues(IvLen, r)),
          put |-> TRUE, id |-> id, key |-> dataKey, content |-> encryptedContent,
          rng |-> r + IvLen]

\* DataKey with the key made from the secret instead of drawn.
DataKey_FromSecret(r) == getMasterKey(SECRET_KEY)

\* const dataKey = crypto.getRandomValues(new Uint8Array(32)), the stream at r.
DataKey(r) == getRandomValues(KeyLen, r)

\* The handler with id the value crypto.randomUUID() gave (it took 16 bytes of
\* the random stream at r); put tells whether the INSERT was issued.
ShareMinted(text, id, r, dbOk) ==
    IF ValidateText(text) # Text200
    THEN [reply |-> ValidateText(text), body |-> <<>>, put |-> FALSE, id |-> <<>>,
          key |-> <<>>, content |-> <<>>, rng |-> r]
    ELSE LET dataKey == DataKey(r + 16)
             encryptedContent ==
                 encryptData(text, dataKey, getRandomValues(IvLen, r + 16 + KeyLen))
         IN  ShareStore(dbOk, id, dataKey, encryptedContent, r + 16 + KeyLen + IvLen)

\* text is c.req.text().
ShareResult(text, r, dbOk) == ShareMinted(text, randomUUID(r), r, dbOk)

\* --------------------------------------------------- app.get('/api/retrieve')
\* Steps 2 and 3 of the handler, for a row that was found; hasKey is false
\* when keyHex is undefined (keyHex.match then throws).
RetrieveContent(hasKey, keyHex, content) ==
    LET chunks == MatchChunks(keyHex)
    IN  IF ~hasKey \/ chunks = <<>> THEN [reply |-> DecryptionFailed, body |-> <<>>, get |-> TRUE]
        ELSE LET opened == decryptData(content, HexToBytes(chunks))
             IN  IF opened.threw
                 THEN [reply |-> DecryptionFailed, body |-> <<>>, get |-> TRUE]
                 ELSE [reply |-> Text200, body |-> opened.text, get |-> TRUE]

\* RetrievePayload without the check for a missing row: reading the content
\* of null throws inside the outer try.
RetrievePayload_NoRowCheck(payloadStr, table) ==
    LET parsed == JsonParse(payloadStr)
    IN  IF parsed.threw \/ ~parsed.hasId
        THEN [reply |-> DecryptionFailed, body |-> <<>>, get |-> FALSE]
        ELSE IF ~DbHas(table, parsed.id)
        THEN [reply |-> DecryptionFailed, body |-> <<>>, get |-> TRUE]
        ELSE RetrieveContent(parsed.hasKey, parsed.key, DbFirst(table, parsed.id))

\* The handler from JSON.parse on, inside the outer try.  JSON.parse throws,
\* or the id is undefined and bind(id) throws (D1 takes no undefined), or the
\* SELECT runs.
RetrievePayload(payloadStr, table) ==
    LET parsed == JsonParse(payloadStr)
    IN  IF parsed.threw \/ ~parsed.hasId
        THEN [reply |-> DecryptionFailed, body |-> <<>>, get |-> FALSE]
        ELSE IF ~DbHas(table, parsed.id)
        THEN [reply |-> NotFound, body |-> <<>>, get |-> TRUE]
        ELSE RetrieveContent(parsed.hasKey, parsed.key, DbFirst(table, parsed.id))

\* RetrieveResult without the return in the inner catch block: payloadStr is
\* left undefined and JSON.parse throws in the outer try.
RetrieveResult_NoReturnInCatch(token, table) ==
    IF token = <<>> THEN [reply |-> TokenRequired, body |-> <<>>, get |-> FALSE]
    ELSE LET opened == decryptData(token, MasterKey)
         IN  IF opened.threw THEN [reply |-> DecryptionFailed, body |-> <<>>, get |-> FALSE]
             ELSE RetrievePayload(opened.text, table)

\* token is c.req.query('token'), <<>> when absent or empty; get tells whether
\* the SELECT was issued.
RetrieveResult(token, table) ==
    IF token = <<>> THEN [reply |-> TokenRequired, body |-> <<>>, get |-> FALSE]
    ELSE LET opened == decryptData(token, MasterKey)
         IN  IF opened.threw THEN [reply |-> InvalidToken, body |-> <<>>, get |-> FALSE]
             ELSE RetrievePayload(opened.text, table)

\* ------------------------------------------------------------------ inputs
Rep(c, n) == [i \in 1..n |-> c]

\* Request bodies: none, "a", a text of MaxTextLen two-byte characters, a text
\* that starts with U+FEFF, and a text one character over the limit.
Texts ==
    {<<>>, <<97>>, Rep(233, MaxTextLen), <<65279, 97>>, Rep(97, MaxTextLen + 1)}

\* Tokens nobody issued: none, a lone line feed, "zz", "abc", and a string of
\* zeros long enough for an iv and a tag.
StrayTokens ==
    {<<>>, <<10>>, <<122, 122>>, <<97, 98, 99>>, Rep(48, 2 * (IvLen + TagLen))}

IssuedTokens == {issued[k].token : k \in 1..Len(issued)}
StoredContents == {store[i].content : i \in DOMAIN store}

\* c with bit b inverted.
FlipBit(c, b) == IF (c \div (2 ^ b)) % 2 = 1 THEN c - 2 ^ b ELSE c + 2 ^ b
FlipAt(str, p, b) == [str EXCEPT ![p] = FlipBit(@, b)]

\* str with one bit of one of its first FlipSpan characters inverted.
FlippedNear(str) ==
    {FlipAt(str, p, b) : p \in 1..(IF Len(str) < FlipSpan THEN Len(str) ELSE FlipSpan),
                         b \in FlipBits}

\* Strings made from a token that are not hex strings of even length: the
\* token followed by a line feed, the token with the first character of its
\* first byte below 16 blanked, the token cut one character short, and the
\* token cut down to less than an iv and a tag.
HasSmallByte(str) == \E i \in 1..(Len(str) \div 2) : str[2 * i - 1] = 48
BlankSmallByte(str) ==
    LET i == CHOOSE i \in 1..(Len(str) \div 2) :
                 str[2 * i - 1] = 48 /\ \A j \in 1..(i - 1) : str[2 * j - 1] # 48
    IN  [str EXCEPT ![2 * i - 1] = 32]
Misshapen(str) ==
    {str \o <<10>>, SubSeq(str, 1, Len(str) - 1), SubSeq(str, 1, 2 * IvLen + 1)}
    \cup (IF HasSmallByte(str) THEN {BlankSmallByte(str)} ELSE {})

\* Tokens sealed under the master key by its holder around payloads the share
\* handler does not write: a text that is not JSON, an object without id and
\* key, an object without key, and a payload whose key is not a hex string.
ForgedPayloads(ids) ==
    {<<120>>, <<123, 125>>}
    \cup {<<123, 34, 105, 100, 34, 58, 34>> \o id \o <<34, 125>> : id \in ids}
    \cup {JsonStringify(id, <<122, 122>>) : id \in ids}
ForgedTokens(ids) ==
    {encryptData(payload, MasterKey, Rep(0, IvLen)) : payload \in ForgedPayloads(ids)}

\* ------------------------------------------------------------------ actions
NoResp == [op |-> "none", req |-> <<>>, status |-> 0, msg |-> "", body |-> <<>>,
           id |-> <<>>, db |-> <<>>, dbFailed |-> FALSE]

\* A request that has not come in.  pc is the await the handler is at, log
\* what the request did to the table.
Idle == [op |-> "none", pc |-> "idle", req |-> <<>>, id |-> <<>>, key |-> <<>>,
         hasKey |-> FALSE, content |-> <<>>, body |-> <<>>, status |-> 0, msg |-> "", log |-> <<>>]

Init ==
    /\ store = <<>>
    /\ rng = 0
    /\ clock = 1
    /\ issued = <<>>
    /\ calls = 0
    /\ resp = NoResp
    /\ run = [p \in 1..(MaxShareCalls + MaxRetrieveCalls) |-> Idle]
    /\ idUnique = TRUE
    /\ dups = <<>>

\* A share call in which crypto.randomUUID() gives id; dbOk tells whether the
\* database is up.
ShareCallMinted(limit, text, dbOk, id) ==
    /\ ValidateText(text) = Text200 => calls < limit
    /\ \E ok \in {dbOk /\ ~InsertThrows(store, id, idUnique)} :
       \E res \in {ShareMinted(text, id, rng, ok)} :
        /\ store' = IF res.put /\ ok
                    THEN DbInsert(store, res.id, res.content, clock)
                    ELSE store
        /\ dups' = IF res.put /\ ok
                   THEN DbInsertDup(store, dups, res.id, res.content, clock)
                   ELSE dups
        /\ rng' = res.rng
        /\ clock' = IF res.put THEN clock + 1 ELSE clock
        /\ calls' = IF res.put THEN calls + 1 ELSE calls
        /\ issued' = IF res.reply = Text200
                     THEN Append(issued, [text |-> text, id |-> res.id, key |-> res.key,
                                          content |-> res.content, token |-> res.body])
                     ELSE issued
        /\ resp' = [op |-> "share", req |-> text, status |-> res.reply.status,
                    msg |-> res.reply.msg, body |-> res.body, id |-> res.id,
                    db |-> IF res.put THEN <<"insert">> ELSE <<>>,
                    dbFailed |-> res.put /\ ~ok]
        /\ UNCHANGED <<run, idUnique>>

ShareCall(limit, text, dbOk) == ShareCallMinted(limit, text, dbOk, randomUUID(rng))

RetrieveCall(token) ==
    \E res \in {RetrieveResult(token, store)} :
        /\ resp' = [op |-> "retrieve", req |-> token, status |-> res.reply.status,
                    msg |-> res.reply.msg, body |-> res.body, id |-> <<>>,
                    db |-> IF res.get THEN <<"select">> ELSE <<>>,
                    dbFailed |-> FALSE]
        /\ UNCHANGED <<store, rng, clock, issued, calls, run, idUnique, dups>>

Share == \E text \in Texts, dbOk \in BOOLEAN : ShareCall(MaxShares, text, dbOk)

Retrieve ==
    \E token \in IssuedTokens \cup StrayTokens \cup StoredContents \cup DOMAIN store :
        RetrieveCall(token)

\* The store's owner removes a row (deletion and expiry are the store's concern).
StoreRemove ==
    \E id \in DOMAIN store :
        /\ store' = [i \in (DOMAIN store) \ {id} |-> store[i]]
        /\ resp' = NoResp
        /\ UNCHANGED <<rng, clock, issued, calls, run, idUnique, dups>>

\* A request with a token that opens under the master key and holds no
\* payload of the share handler.
RetrieveForged ==
    \E token \in ForgedTokens({issued[k].id : k \in 1..Len(issued)}) : RetrieveCall(token)

Next == Share \/ Retrieve \/ StoreRemove \/ RetrieveForged

Spec == Init /\ [][Next]_vars

\* ---------------------------------- behaviours in which an id comes twice
\* schema.sql is not among the sources: the id column is unique or it is not.
InitCollide ==
    \E unique \in BOOLEAN :
        /\ store = <<>>
        /\ rng = 0
        /\ clock = 1
        /\ issued = <<>>
        /\ calls = 0
        /\ resp = NoResp
        /\ run = [p \in 1..(MaxShareCalls + MaxRetrieveCalls) |-> Idle]
        /\ idUnique = unique
        /\ dups = <<>>

\* A share call in which crypto.randomUUID() gives an id that is in the table
\* (2^-122 a call, and nothing in the handler rules it out).
ShareCollide ==
    \E text \in {t \in Texts : ValidateText(t) = Text200}, id \in DOMAIN store :
        ShareCallMinted(MaxShares, text, TRUE, id)

NextCollide == Share \/ ShareCollide \/ Retrieve \/ StoreRemove

SpecCollide == InitCollide /\ [][NextCollide]_vars

\* ------------------------------------------- behaviours with tampered data
ShareOnce ==
    \E text \in Texts, dbOk \in BOOLEAN : ShareCall(MaxTamperShares, text, dbOk)

\* A request with an issued token of which one bit was inverted.
RetrieveFlipped ==
    \E t \in IssuedTokens : \E token \in FlippedNear(t) : RetrieveCall(token)

\* A request with a misshapen copy of an issued token.
RetrieveMisshapen ==
    \E t \in IssuedTokens : \E token \in Misshapen(t) : RetrieveCall(token)

\* One bit of a stored content is inverted behind the program's back.
StoreFlip ==
    \E k \in 1..Len(issued) :
        /\ DbHas(store, issued[k].id)
        /\ store[issued[k].id].content = issued[k].content
        /\ \E content \in FlippedNear(issued[k].content) :
               store' = [store EXCEPT ![issued[k].id].content = content]
        /\ resp' = NoResp
        /\ UNCHANGED <<rng, clock, issued, calls, run, idUnique, dups>>

NextTamper ==
    ShareOnce \/ Retrieve \/ RetrieveFlipped \/ RetrieveMisshapen \/ StoreFlip \/ StoreRemove

SpecTamper == Init /\ [][NextTamper]_vars

\* ------------------------------------- the handlers, one await at a time
\* The isolate runs one handler until its next await, then any handler that
\* is ready: the steps below are the handlers cut at their awaits.
Done(call, reply, body) ==
    [call EXCEPT !.pc = "done", !.status = reply.status, !.msg = reply.msg,
                 !.body = body]

RespOf(call) ==
    [op |-> call.op, req |-> call.req, status |-> call.status, msg |-> call.msg,
     body |-> call.body, id |-> IF call.op = "share" THEN call.id ELSE <<>>,
     db |-> SelectSeq(call.log, LAMBDA e : e \in {"insert", "select"}),
     dbFailed |-> call.op = "share" /\ call.msg = DatabaseError.msg]

\* The request body is read and checked, the id and the data key are drawn,
\* and encryptData is entered (up to its importKey).
ShareBegin(p, text) ==
    /\ run[p].pc = "idle"
    /\ \E call \in {[run[p] EXCEPT !.op = "share", !.req = text]} :
        IF ValidateText(text) # Text200
        THEN /\ run' = [run EXCEPT ![p] = Done(call, ValidateText(text), <<>>)]
             /\ resp' = RespOf(run'[p])
             /\ UNCHANGED rng
        ELSE /\ run' = [run EXCEPT ![p] =
                           [call EXCEPT !.pc = "seal", !.id = randomUUID(rng),
                                        !.key = DataKey(rng + 16)]]
             /\ rng' = rng + 16 + KeyLen
             /\ UNCHANGED resp
    /\ UNCHANGED <<store, clock, issued, calls, idUnique, dups>>

\* encryptData(text, dataKey): the iv is drawn and the content sealed.
ShareSeal(p) ==
    /\ run[p].op = "share" /\ run[p].pc = "seal"
    /\ run' = [run EXCEPT ![p].pc = "put",
                          ![p].content = encryptData(run[p].req, run[p].key,
                                                     getRandomValues(IvLen, rng))]
    /\ rng' = rng + IvLen
    /\ UNCHANGED <<store, clock, issued, calls, resp, idUnique, dups>>

\* AfterPut without the return in the catch block.
AfterPut_NoReturnInCatch(ok) == "token"

\* Where the handler goes after the INSERT: on to the token, or out through
\* the catch block.
AfterPut(ok) == IF ok THEN "token" ELSE "done"

\* The INSERT.
SharePut(p, dbOk) ==
    /\ run[p].op = "share" /\ run[p].pc = "put"
    /\ \E ok \in {dbOk /\ ~InsertThrows(store, run[p].id, idUnique)} :
        /\ store' = IF ok THEN DbInsert(store, run[p].id, run[p].content, clock)
                    ELSE store
        /\ dups' = IF ok
                   THEN DbInsertDup(store, dups, run[p].id, run[p].content, clock)
                   ELSE dups
        /\ \E call \in {[run[p] EXCEPT !.log = @ \o <<"insert">>
                                                \o (IF ok THEN <<"inserted">> ELSE <<>>)]} :
            run' = [run EXCEPT ![p] =
                       IF AfterPut(ok) = "done" THEN Done(call, DatabaseError, <<>>)
                       ELSE [call EXCEPT !.pc = AfterPut(ok)]]
        /\ resp' = IF AfterPut(ok) = "done" THEN RespOf(run'[p]) ELSE resp
    /\ clock' = clock + 1
    /\ UNCHANGED <<rng, issued, calls, idUnique>>

\* The payload is written and sealed under the master key.
ShareToken(p) ==
    /\ run[p].op = "share" /\ run[p].pc = "token"
    /\ run' = [run EXCEPT ![p].pc = "return",
                          ![p].body = encryptData(JsonStringify(run[p].id,
                                                                buf2hex(run[p].key)),
                                                  MasterKey, getRandomValues(IvLen, rng))]
    /\ rng' = rng + IvLen
    /\ UNCHANGED <<store, clock, issued, calls, resp, idUnique, dups>>

\* return c.text(token)
ShareReturn(p) ==
    /\ run[p].op = "share" /\ run[p].pc = "return"
    /\ run' = [run EXCEPT ![p] = Done(run[p], Text200, run[p].body)]
    /\ issued' = Append(issued, [text |-> run[p].req, id |-> run[p].id,
                                 key |-> run[p].key, content |-> run[p].content,
                                 token |-> run[p].body])
    /\ resp' = RespOf(run'[p])
    /\ UNCHANGED <<store, rng, clock, calls, idUnique, dups>>

\* The token is checked, opened under the master key and parsed; the handler
\* ends here or goes on to the SELECT with the id and the key of the payload.
RetrieveToken(token) ==
    LET end(reply) == [pc |-> "done", reply |-> reply, id |-> <<>>, hasKey |-> FALSE,
                       key |-> <<>>]
        opened == decryptData(token, MasterKey)
        parsed == JsonParse(opened.text)
    IN  IF token = <<>> THEN end(TokenRequired)
        ELSE IF opened.threw THEN end(InvalidToken)
        ELSE IF parsed.threw \/ ~parsed.hasId THEN end(DecryptionFailed)
        ELSE [pc |-> "select", reply |-> Text200, id |-> parsed.id,
              hasKey |-> parsed.hasKey, key |-> parsed.key]

RetrieveBegin(p, token) ==
    /\ run[p].pc = "idle"
    /\ \E call \in {[run[p] EXCEPT !.op = "retrieve", !.req = token]},
          t \in {RetrieveToken(token)} :
        IF t.pc = "done"
        THEN /\ run' = [run EXCEPT ![p] = Done(call, t.reply, <<>>)]
             /\ resp' = RespOf(run'[p])
        ELSE /\ run' = [run EXCEPT ![p] = [call EXCEPT !.pc = "select", !.id = t.id,
                                                       !.hasKey = t.hasKey, !.key = t.key]]
             /\ UNCHANGED resp
    /\ UNCHANGED <<store, rng, clock, issued, calls, idUnique, dups>>

\* AfterSelect for a handler that deletes the row it has read.
AfterSelect_BurnAfterReading(table, id) == [i \in (DOMAIN table) \ {id} |-> table[i]]

\* The table after SELECT content FROM shares WHERE id = ?: as before.
AfterSelect(table, id) == table

\* The SELECT and the check for a missing row.
RetrieveSelect(p) ==
    /\ run[p].op = "retrieve" /\ run[p].pc = "select"
    /\ store' = AfterSelect(store, run[p].id)
    /\ \E call \in {[run[p] EXCEPT !.log = Append(@, "select")]} :
        IF ~DbHas(store, run[p].id)
        THEN /\ run' = [run EXCEPT ![p] = Done(call, NotFound, <<>>)]
             /\ resp' = RespOf(run'[p])
        ELSE /\ run' = [run EXCEPT ![p] = [call EXCEPT !.pc = "open",
                                                       !.content = DbFirst(store, run[p].id)]]
             /\ UNCHANGED resp
    /\ UNCHANGED <<rng, clock, issued, calls, idUnique, dups>>

\* The content is opened with the key of the payload and returned.
RetrieveOpen(p) ==
    /\ run[p].op = "retrieve" /\ run[p].pc = "open"
    /\ \E res \in {RetrieveContent(run[p].hasKey, run[p].key, run[p].content)} :
        run' = [run EXCEPT ![p] = Done(run[p], res.reply, res.body)]
    /\ resp' = RespOf(run'[p])
    /\ UNCHANGED <<store, rng, clock, issued, calls, idUnique, dups>>

\* Request bodies and tokens of the requests in progress.
\* Each share request brings a text of its own: the first none or "a", the
\* second a text that starts with U+FEFF, a later one a letter of its own.
StepTexts(p) ==
    IF p = 1 THEN {<<>>, <<97>>}
    ELSE IF p = 2 THEN {<<65279, 97>>}
    ELSE {<<96 + p>>}
StepTokens == IssuedTokens \cup {<<>>, <<122, 122>>}

\* The requests come in in the order of their numbers, the share requests
\* under the first MaxShareCalls numbers.
ShareCalls == 1..MaxShareCalls
RetrieveCalls == (MaxShareCalls + 1)..(MaxShareCalls + MaxRetrieveCalls)
IsNext(p, among) == \A q \in among : q < p => run[q].pc # "idle"

ShareStep ==
    \E p \in ShareCalls :
        \/ \E text \in StepTexts(p) : IsNext(p, ShareCalls) /\ ShareBegin(p, text)
        \/ ShareSeal(p)
        \/ \E dbOk \in BOOLEAN : SharePut(p, dbOk)
        \/ ShareToken(p)
        \/ ShareReturn(p)

\* The retrieve requests of one behaviour bring the same token.
SameToken(p, token) == \A q \in RetrieveCalls : q < p => run[q].req = token

RetrieveStep ==
    \E p \in RetrieveCalls :
        \/ \E token \in StepTokens :
               IsNext(p, RetrieveCalls) /\ SameToken(p, token) /\ RetrieveBegin(p, token)
        \/ RetrieveSelect(p)
        \/ RetrieveOpen(p)

\* The share requests, interleaved with each other.
NextShareSteps == ShareStep

SpecShareSteps == Init /\ [][NextShareSteps]_vars

\* The retrieve requests, interleaved with each other and with share calls.
\* A retrieve request sees of a share call its INSERT and nothing else, so
\* the share calls are taken whole here.
NextSteps == Share \/ RetrieveStep

SpecSteps == Init /\ [][NextSteps]_vars

\* ================================================================== claims
\* The error kinds of the design, told by what the caller sees.
IsInputError(r) ==
    /\ r.status = 400
    /\ r.msg \in {"Error: Text required", "Error: Text too large (>1MB)",
                  "Error: Token required"}
IsInvalidTokenError(r) == r.status = 400 /\ r.msg = "Error: Invalid token"
IsNotFoundError(r) == r.status = 404 /\ r.msg = "Error: Not found"
IsStorageError(r) == r.status = 500 /\ r.msg = "Error: Database error"
IsDecryptionError(r) ==
    r.status = 500 /\ r.msg = "Error: Decryption failed or system error"
ReturnsText(r) == r.status = 200

\* The record of an issued token is in the store as it was written.
Intact(e) == e.id \in DOMAIN store /\ store[e.id].content = e.content

\* t is str with exactly one bit of one character inverted.
IsOneBitFlip(str, t) ==
    /\ Len(t) = Len(str)
    /\ \E p \in 1..Len(str) :
        /\ \E b \in 0..7 : t[p] = FlipBit(str[p], b)
        /\ \A q \in 1..Len(str) : q # p => t[q] = str[q]

\* needle occurs in hay.
Contains(hay, needle) ==
    \E o \in 0..(Len(hay) - Len(needle)) : SubSeq(hay, o + 1, o + Len(needle)) = needle

\* A hex string of even length that can hold an iv and a tag.
WellFormedToken(t) ==
    /\ Len(t) % 2 = 0
    /\ Len(t) >= 2 * (IvLen + TagLen)
    /\ \A i \in 1..Len(t) : IsHexDigit(t[i])

\* C1: a retrieve request with an issued token whose record is still in the
\* store, unmodified, returns exactly the text that was shared.
C1_RoundTrip ==
    \A k \in 1..Len(issued) :
        (resp.op = "retrieve" /\ resp.req = issued[k].token /\ Intact(issued[k]))
            => (ReturnsText(resp) /\ resp.body = issued[k].text)

\* C2: a retrieve request with an issued token of which exactly one bit was
\* inverted fails with the invalid-token error.
C2_TokenTamperDetected ==
    \A k \in 1..Len(issued) :
        (resp.op = "retrieve" /\ IsOneBitFlip(issued[k].token, resp.req))
            => IsInvalidTokenError(resp)

\* C3: no row of the store holds a content key: a row is a content and a
\* created_at under its id, no issued key occurs in the content (as hex or as
\* bytes) or in the id, and a request whose token is a value taken from the
\* store (a content or an id) returns no text.
C3_StoreHoldsNoKey ==
    /\ \A id \in DOMAIN store :
        /\ DOMAIN store[id] = {"content", "created_at"}
        /\ \A k \in 1..Len(issued) :
            /\ ~Contains(store[id].content, buf2hex(issued[k].key))
            /\ ~Contains(HexToBytes(MatchChunks(store[id].content)), issued[k].key)
            /\ ~Contains(id, buf2hex(issued[k].key))
    /\ (resp.op = "retrieve" /\ resp.req \in StoredContents \cup DOMAIN store)
            => ~ReturnsText(resp)

\* C3 witness: a request brought a stored content as its token while a share
\* was in the store.
C3_Witness ==
    /\ resp.op = "retrieve"
    /\ resp.req \in StoredContents
    /\ \E k \in 1..Len(issued) : Intact(issued[k])

\* C4: a retrieve request whose token is not an issued token returns no text.
C4_OnlyIssuedTokensRetrieve ==
    (resp.op = "retrieve" /\ resp.req \notin IssuedTokens) => ~ReturnsText(resp)

\* C5: a retrieve request with an issued token, made after one bit of the
\* stored content of its record was inverted, fails with the decryption error.
C5_ContentTamperDetected ==
    \A k \in 1..Len(issued) :
        (/\ resp.op = "retrieve"
         /\ resp.req = issued[k].token
         /\ issued[k].id \in DOMAIN store
         /\ IsOneBitFlip(issued[k].content, store[issued[k].id].content))
            => IsDecryptionError(resp)

\* C6: a retrieve request with an issued token whose record was removed from
\* the store fails with the not-found error.
C6_DanglingIsNotFound ==
    \A k \in 1..Len(issued) :
        (resp.op = "retrieve" /\ resp.req = issued[k].token
         /\ issued[k].id \notin DOMAIN store)
            => IsNotFoundError(resp)

\* C6 witness: such a request was made.
C6_Witness ==
    \E k \in 1..Len(issued) :
        /\ resp.op = "retrieve"
        /\ resp.req = issued[k].token
        /\ issued[k].id \notin DOMAIN store

\* C7: a share request whose text is empty or longer than the limit, the
\* length taken in bytes, fails with the input error, returns no token and
\* issues no INSERT (stated for the requests during which the store works).
C7_RejectedWithoutWrite ==
    (/\ resp.op = "share"
     /\ ~resp.dbFailed
     /\ (resp.req = <<>> \/ Len(enc_encode(resp.req)) > MaxTextLen))
        => (IsInputError(resp) /\ resp.body = <<>> /\ resp.db = <<>>)

\* C8: a retrieve request whose token is not empty and not a well-formed hex
\* string fails with the invalid-token error.
C8_MalformedIsInvalid ==
    (resp.op = "retrieve" /\ resp.req # <<>> /\ ~WellFormedToken(resp.req))
        => IsInvalidTokenError(resp)

\* C9: any two successful share calls have distinct ids and distinct tokens,
\* and the token of each, its record intact, retrieves the text of its call.
C9_DistinctAndIndependent ==
    \A j, k \in 1..Len(issued) :
        j # k =>
            /\ issued[j].id # issued[k].id
            /\ issued[j].token # issued[k].token
            /\ Intact(issued[j]) =>
                   /\ RetrieveResult(issued[j].token, store).reply.status = 200
                   /\ RetrieveResult(issued[j].token, store).body = issued[j].text

\* The part of C9 about ids and tokens alone.
DistinctIdsAndTokens ==
    \A j, k \in 1..Len(issued) :
        j # k => issued[j].id # issued[k].id /\ issued[j].token # issued[k].token

\* C10: a share call whose INSERT fails ends with the storage error and
\* without a token, and the store holds no record for the id it minted.
C10_PutFailureAborts ==
    (resp.op = "share" /\ resp.dbFailed)
        => /\ IsStorageError(resp)
           /\ resp.body = <<>>
           /\ resp.id \notin DOMAIN store
           /\ \A k \in 1..Len(issued) : issued[k].id # resp.id

\* C10 witness: the INSERT of a share call failed.
C10_Witness == resp.op = "share" /\ resp.dbFailed /\ resp.id # <<>>

\* The token opens under the master key to an id that is in the table and to
\* a key under which the content stored under that id opens.
TokenMatchesRecord(token, table) ==
    /\ token # <<>>
    /\ \A opened \in {decryptData(token, MasterKey)} :
        /\ ~opened.threw
        /\ \A payload \in {JsonParse(opened.text)} :
            /\ ~payload.threw /\ payload.hasId /\ payload.hasKey
            /\ payload.id \in DOMAIN table
            /\ ~decryptData(table[payload.id].content,
                            HexToBytes(MatchChunks(payload.key))).threw

\* C11: a share request builds and returns its token only after its INSERT
\* has completed without error, and at the moment the token is returned the
\* store holds a record under the id inside the token whose content opens
\* under the key inside the token.
C11_TokenAfterPut ==
    [][\A p \in ShareCalls :
          /\ (run'[p].pc \in {"token", "return"} \/ run'[p].body # <<>>)
                 => run'[p].log = <<"insert", "inserted">>
          /\ (run[p].pc = "return" /\ run'[p].pc = "done") =>
                 /\ run'[p].status = 200
                 /\ resp' = RespOf(run'[p])
                 /\ TokenMatchesRecord(resp'.body, store')]_vars

\* C11 witness: one share request has returned its token, the INSERT of
\* another has failed.
C11_Witness ==
    /\ resp.op = "share" /\ ReturnsText(resp)
    /\ \E q \in ShareCalls : run[q].pc = "done" /\ run[q].log = <<"insert">>

\* The payload is an envelope: JSON with an id and a key of KeyLen bytes in
\* hex.
IsEnvelope(payloadStr) ==
    \A parsed \in {JsonParse(payloadStr)} :
        /\ ~parsed.threw /\ parsed.hasId /\ parsed.hasKey
        /\ Len(parsed.key) = 2 * KeyLen
        /\ \A i \in 1..Len(parsed.key) : IsHexDigit(parsed.key[i])

\* C12: a retrieve request whose token does not open under the master key,
\* or opens to bytes that are no envelope (no JSON, no id, no key or a
\* malformed key), ends with the invalid-token error.
C12_ParseFailureIsInvalidToken ==
    (resp.op = "retrieve" /\ resp.req # <<>>) =>
        \A opened \in {decryptData(resp.req, MasterKey)} :
            (opened.threw \/ ~IsEnvelope(opened.text)) => IsInvalidTokenError(resp)

\* The part of C12 the code keeps: a token that does not open under the
\* master key ends with the invalid-token error.
UnopenedIsInvalidToken ==
    (resp.op = "retrieve" /\ resp.req # <<>> /\ decryptData(resp.req, MasterKey).threw)
        => IsInvalidTokenError(resp)

\* A step in which a share call issues its INSERT under an id that is in the
\* table.
CollidingShare ==
    /\ clock' = clock + 1
    /\ resp'.op = "share"
    /\ resp'.id \in DOMAIN store

\* C13: a share call whose id is the id of a record in the store succeeds
\* and overwrites the record: afterwards the store maps the id to the content
\* sealed in this call.
C13_CollisionOverwrites ==
    [][CollidingShare =>
          /\ ReturnsText(resp')
          /\ store'[resp'.id].content = issued'[Len(issued')].content
          /\ store'[resp'.id].content # store[resp'.id].content]_vars

\* C13 as amended: a share call whose id is the id of a record in the store
\* leaves that record as it was; with a unique id column the INSERT throws and
\* the call ends with the storage error and without a token, without one a
\* second row is added under the id and a token is returned.
C13_CollisionKeepsRecord ==
    [][CollidingShare =>
          /\ store' = store
          /\ idUnique => (IsStorageError(resp') /\ resp'.body = <<>> /\ dups' = dups
                          /\ issued' = issued)
          /\ ~idUnique => /\ ReturnsText(resp')
                          /\ dups' = Append(dups, [id |-> resp'.id,
                                                    content |-> issued'[Len(issued')].content,
                                                    created_at |-> clock])]_vars

\* C13 witness: the INSERT of a share call has thrown on an id that is in the
\* store.
C13_Witness ==
    resp.op = "share" /\ resp.dbFailed /\ idUnique /\ resp.id \in DOMAIN store

\* The other case of C13: a second row was added under an id.
C13_SecondRow == dups # <<>> /\ resp.op = "share" /\ ReturnsText(resp)

\* C14: a share or retrieve call neither changes nor removes a row that is in
\* the table: every row under an id is the same row after the call, also when
\* the call mints an id that is in the table.
C14_RecordsImmutable ==
    [][resp'.op \in {"share", "retrieve"} =>
          /\ \A id \in DOMAIN store : id \in DOMAIN store' /\ store'[id] = store[id]
          /\ Len(dups') >= Len(dups)
          /\ SubSeq(dups', 1, Len(dups)) = dups]_vars

\* C14 witness: a share call has minted an id that was in the table, and the
\* record first written under the id is as it was issued.
C14_Witness ==
    /\ dups # <<>>
    /\ \E k \in 1..Len(issued) : issued[k].id = dups[1].id /\ Intact(issued[k])

\* The share requests that have drawn their data key.
Keyed == {p \in ShareCalls : run[p].op = "share" /\ run[p].key # <<>>}

\* Every record in the table opens under the data key of the one request
\* that wrote it, under the key of no other request and not under the master
\* key.
RecordsOpenUnderOwnKey(table, calls_) ==
    \A id \in DOMAIN table :
        /\ decryptData(table[id].content, MasterKey).threw
        /\ \A p \in ShareCalls :
               calls_[p].key # <<>> =>
                   (~decryptData(table[id].content, calls_[p].key).threw
                       <=> (calls_[p].id = id
                            /\ \E i \in 1..Len(calls_[p].log) : calls_[p].log[i] = "inserted"))

\* C15: the data keys of any two share requests differ and none is the
\* master key; every record in the store opens under the data key of the one
\* request that wrote it and under the key of no other request (looked at
\* whenever a key is drawn or a row written), while the master key opens the
\* token of every request (looked at whenever a token is built).
C15_DataKeySingleUse ==
    [][/\ \A p \in Keyed' :
             /\ run'[p].key # MasterKey
             /\ \A q \in Keyed' : p # q => run'[p].key # run'[q].key
             /\ run'[p].body # run[p].body
                    => ~decryptData(run'[p].body, MasterKey).threw
       /\ (store' # store \/ Keyed' # Keyed) => RecordsOpenUnderOwnKey(store', run')]_vars

\* C15 witness: two share requests have written their records and hold
\* their tokens.
C15_Witness ==
    /\ Cardinality(DOMAIN store) >= 2
    /\ \A p \in ShareCalls : run[p].pc = "done" /\ run[p].status = 200

\* C16: no step of a retrieve request changes the table (or the random
\* stream, the clock or what was issued), whatever the request ends with, and
\* any two retrieve requests with the same token, run one after the other or
\* interleaved with each other and with share requests, end with the same
\* status, message and body (the share requests add rows under their own ids
\* and nothing else touches the table between them).
C16_RetrieveReadOnly ==
    [][/\ (\E p \in RetrieveCalls : run'[p] # run[p]) =>
             /\ store' = store /\ dups' = dups
             /\ rng' = rng /\ clock' = clock /\ issued' = issued
       /\ \A p, q \in RetrieveCalls :
             (run'[p].pc = "done" /\ run'[q].pc = "done" /\ run'[p].req = run'[q].req)
                 => /\ run'[p].status = run'[q].status
                    /\ run'[p].msg = run'[q].msg
                    /\ run'[p].body = run'[q].body]_vars

\* C16 witness: two retrieve requests with the same issued token have ended,
\* both with the text.
C16_Witness ==
    \E p, q \in RetrieveCalls :
        /\ p # q
        /\ run[p].pc = "done" /\ run[q].pc = "done"
        /\ run[p].req = run[q].req /\ run[p].req \in IssuedTokens
        /\ run[p].status = 200 /\ run[q].status = 200

\* The two requests of C16 can be in progress at the same time, both past
\* their SELECT.
BothPastSelect ==
    \E p, q \in RetrieveCalls :
        p # q /\ run[p].pc = "open" /\ run[q].pc = "open" /\ run[p].req = run[q].req

\* The share requests whose INSERT has run without error.
Inserted(p) == \E i \in 1..Len(run[p].log) : run[p].log[i] = "inserted"

\* The part of C17 about the table: the rows are those of the requests whose
\* INSERT has run, one row each, under the id and with the content of the
\* request.
WritesOwnRecordOnly ==
    /\ DOMAIN store = {run[p].id : p \in {q \in ShareCalls : Inserted(q)}}
    /\ \A p, q \in ShareCalls :
           (p # q /\ run[p].id # <<>> /\ run[q].id # <<>>) => run[p].id # run[q].id
    /\ \A p \in ShareCalls :
           Inserted(p) => store[run[p].id].content = run[p].content

\* C17: however the steps of the share requests interleave, each request
\* writes the record of its own id and no other, and the token each request
\* returns retrieves exactly the text of that request (looked at when all
\* requests have returned their tokens).
C17_ConcurrentSharesIndependent ==
    /\ WritesOwnRecordOnly
    /\ (\A p \in ShareCalls : run[p].pc = "done" /\ run[p].status = 200) =>
           \A p \in ShareCalls :
               \A res \in {RetrieveResult(run[p].body, store)} :
                   res.reply = Text200 /\ res.body = run[p].req

\* The part of C17 the code keeps for every text: the token of each request
\* retrieves what the content of that request, and of no other, opens to.
TokenRetrievesOwnContent ==
    (resp.op = "share" /\ ReturnsText(resp)) =>
        \A p \in ShareCalls :
            (run[p].pc = "done" /\ run[p].status = 200) =>
                \A res \in {RetrieveResult(run[p].body, store)} :
                    /\ res.reply = Text200
                    /\ res.body = decryptData(run[p].content, run[p].key).text
                    /\ res.body = dec_decode(enc_encode(run[p].req))

\* C18: a retrieve request issues its SELECT only for a token that opened
\* under the master key: an empty token ends with the input error and a token
\* that does not open with the invalid-token error, both without a SELECT,
\* and the not-found and the decryption error are returned only for tokens
\* that opened.
C18_SelectOnlyAfterOpen ==
    resp.op = "retrieve" =>
        \A opens \in {resp.req # <<>> /\ ~decryptData(resp.req, MasterKey).threw} :
            /\ resp.req = <<>> => (IsInputError(resp) /\ resp.db = <<>>)
            /\ (resp.req # <<>> /\ ~opens) => (IsInvalidTokenError(resp) /\ resp.db = <<>>)
            /\ (resp.db # <<>> \/ IsNotFoundError(resp) \/ IsDecryptionError(resp)) => opens

\* C18 witness: a request whose token opened has issued its SELECT and ended
\* with the decryption error.
C18_Witness ==
    /\ resp.op = "retrieve"
    /\ resp.db = <<"select">>
    /\ IsDecryptionError(resp)

=============================================================================
